---- MODULE Spec2Model ----
\* Language-selection and translation pipeline of the chatbot relay
\* (language_handler.py, translation_utils.py, bedrock_utils.py, common.py).
\*
\* Python str values are sequences of one-character strings, so that
\* lower(), strip(), startswith() and replace() are computed, not assumed.
\* Python None (for a str) is the one-element sequence None.
EXTENDS Integers, Sequences, FiniteSets, TLC

VARIABLES
    user_details,         \* ss_facebook_user_details: user id -> profile document
    ss_language_support,  \* the Language Directory's backing collection (docs in stream order)
    calls,                \* delivery slot -> frame of its process_message_with_translation call
    applied               \* the last gateway or store function applied on its own: arguments and result

vars == <<user_details, ss_language_support, calls, applied>>

----------------------------------------------------------------------------
\* Bounds of the model.

\* largest message_count the model lets save_user_details reach
MaxMessageCount == 1
\* largest number of documents in ss_language_support
MaxDirLen == 4
\* largest number of events in a streamed agent response applied on its own
MaxEvents == 2

----------------------------------------------------------------------------
\* Python values.

None == <<"<None>">>

\* Optional[list]: None, or a list
NoList == [none |-> TRUE]
SomeList(l) == [items |-> l]

\* Python truth value of an Optional[str]
Truthy(s) == s # None /\ s # <<>>

Upper == <<"A","B","C","D","E","F","G","H","I","J","K","L","M",
           "N","O","P","Q","R","S","T","U","V","W","X","Y","Z">>
LowerOf == <<"a","b","c","d","e","f","g","h","i","j","k","l","m",
             "n","o","p","q","r","s","t","u","v","w","x","y","z">>

LowerChar(c) ==
    IF \E i \in 1..26 : Upper[i] = c
    THEN LowerOf[CHOOSE i \in 1..26 : Upper[i] = c]
    ELSE c

\* str.lower()
lower(s) == [i \in 1..Len(s) |-> LowerChar(s[i])]

Whitespace == {" ", "\t", "\n"}

RECURSIVE lstrip(_)
lstrip(s) == IF s # <<>> /\ Head(s) \in Whitespace THEN lstrip(Tail(s)) ELSE s

RECURSIVE rstrip(_)
rstrip(s) ==
    IF s # <<>> /\ s[Len(s)] \in Whitespace THEN rstrip(SubSeq(s, 1, Len(s) - 1)) ELSE s

\* str.strip()
strip(s) == rstrip(lstrip(s))

\* str.startswith(prefix)
startswith(s, prefix) ==
    Len(s) >= Len(prefix) /\ SubSeq(s, 1, Len(prefix)) = prefix

\* str.replace(old, ""): every non-overlapping occurrence of old, left to right
RECURSIVE replace_with_empty(_, _)
replace_with_empty(s, old) ==
    IF Len(s) < Len(old) THEN s
    ELSE IF startswith(s, old)
         THEN replace_with_empty(SubSeq(s, Len(old) + 1, Len(s)), old)
         ELSE <<Head(s)>> \o replace_with_empty(Tail(s), old)

----------------------------------------------------------------------------
\* Language codes and display names.

en == <<"e","n">>
ta == <<"t","a">>
ml == <<"m","l">>
fr == <<"f","r">>
hi == <<"h","i">>

English == <<"E","n","g","l","i","s","h">>
Tamil == <<"T","a","m","i","l">>
Malayalam == <<"M","a","l","a","y","a","l","a","m">>

----------------------------------------------------------------------------
\* Language Directory (translation_utils.py).

\* Documents an administrator may have put in ss_language_support, in stream
\* order. A field a document lacks is None.
Catalog == <<
    [id |-> fr, code |-> None, name |-> None],
    [id |-> ta, code |-> ta, name |-> Tamil],
    [id |-> en, code |-> en, name |-> English],
    [id |-> ml, code |-> ml, name |-> Malayalam],
    [id |-> hi, code |-> hi, name |-> None],
    [id |-> <<"d","e">>, code |-> <<"d","e">>, name |-> None] >>

Min(a, b) == IF a < b THEN a ELSE b

DirectoryContents == { SubSeq(Catalog, 1, n) : n \in 0..Min(MaxDirLen, Len(Catalog)) }

DefaultLanguages == <<
    [code |-> en, name |-> English],
    [code |-> ta, name |-> Tamil],
    [code |-> ml, name |-> Malayalam] >>

\* dict.get(key, default) on a document's data
doc_get(value, default) == IF value = None THEN default ELSE value

\* get_supported_languages without the defaults for an empty collection
get_supported_languages_no_empty_default(docs, stream_ok) ==
    IF ~stream_ok THEN DefaultLanguages
    ELSE [i \in 1..Len(docs) |->
            [code |-> doc_get(docs[i].code, docs[i].id),
             name |-> doc_get(docs[i].name, docs[i].id)]]

\* get_supported_languages(db); stream_ok = FALSE: the collection read raises
get_supported_languages(docs, stream_ok) ==
    IF ~stream_ok THEN DefaultLanguages
    ELSE LET languages == [i \in 1..Len(docs) |->
                             [code |-> doc_get(docs[i].code, docs[i].id),
                              name |-> doc_get(docs[i].name, docs[i].id)]]
         IN IF Len(docs) = 0 THEN DefaultLanguages ELSE languages

\* is_language_supported without the membership test
is_language_supported_any(supported_languages, language_code) == TRUE

\* is_language_supported, given the list get_supported_languages returned
is_language_supported(supported_languages, language_code) ==
    \E i \in 1..Len(supported_languages) : supported_languages[i].code = language_code

----------------------------------------------------------------------------
\* Selection-Intent Parser (language_handler.py).

LANG_ == <<"L","A","N","G","_">>
lang_ == <<"l","a","n","g","_">>

\* language_map.get(text_lower)
language_map_get(text_lower) ==
    CASE text_lower = lower(English) -> en
      [] text_lower = lower(Tamil) -> ta
      [] text_lower = lower(Malayalam) -> ml
      [] text_lower = en -> en
      [] text_lower = ta -> ta
      [] text_lower = ml -> ml
      [] OTHER -> None

\* is_language_selection_response without the strip() of the text
is_language_selection_response_no_strip(message_text, payload) ==
    IF Truthy(payload) /\ startswith(payload, LANG_)
    THEN replace_with_empty(payload, LANG_)
    ELSE IF Truthy(payload) /\ startswith(payload, lang_)
    THEN replace_with_empty(payload, lang_)
    ELSE language_map_get(lower(message_text))

is_language_selection_response(message_text, payload) ==
    IF Truthy(payload) /\ startswith(payload, LANG_)
    THEN replace_with_empty(payload, LANG_)
    ELSE IF Truthy(payload) /\ startswith(payload, lang_)
    THEN replace_with_empty(payload, lang_)
    ELSE language_map_get(strip(lower(message_text)))

----------------------------------------------------------------------------
\* Fixed texts (language_handler.py). Each stands for the literal of the source.

prompt_text == <<"Welcome! What's your preferred language?">>

confirmations(code) ==
    CASE code = en -> <<"Language set to English! How can I help you today?">>
      [] code = ta -> <<"(ta) Language set to Tamil! How can I help you today?">>
      [] code = ml -> <<"(ml) Language set to Malayalam! How can I help you today?">>
      [] OTHER -> None

error_messages(code) ==
    CASE code = en -> <<"Sorry, I encountered an error. Please try again.">>
      [] code = ta -> <<"(ta) Sorry, I encountered an error. Please try again.">>
      [] code = ml -> <<"(ml) Sorry, I encountered an error. Please try again.">>
      [] OTHER -> None

\* dict.get(key, default) on the two dicts above
dict_get(value, default) == IF value = None THEN default ELSE value

\* create_language_selection_prompt without the [:3] on the buttons
create_language_selection_prompt_all_buttons(supported_languages) ==
    [response |-> prompt_text,
     quick_replies |-> SomeList([i \in 1..Len(supported_languages) |->
                          [title |-> supported_languages[i].name,
                           payload |-> LANG_ \o supported_languages[i].code]]),
     buttons |-> SomeList([i \in 1..Len(supported_languages) |->
                          [id |-> lang_ \o supported_languages[i].code,
                           title |-> supported_languages[i].name]])]

\* create_language_selection_prompt, given the list get_supported_languages returned
create_language_selection_prompt(supported_languages) ==
    [response |-> prompt_text,
     quick_replies |-> SomeList([i \in 1..Len(supported_languages) |->
                          [title |-> supported_languages[i].name,
                           payload |-> LANG_ \o supported_languages[i].code]]),
     buttons |-> SomeList([i \in 1..Min(3, Len(supported_languages)) |->
                          [id |-> lang_ \o supported_languages[i].code,
                           title |-> supported_languages[i].name]])]

----------------------------------------------------------------------------
\* User Language Store (translation_utils.py) and the profile document (common.py).

Users == {"u1", "u2"}

\* what the store writes for firestore.SERVER_TIMESTAMP
SERVER_TIMESTAMP == "SERVER_TIMESTAMP"

\* a profile document; a field the document lacks is None (message_count: 0,
\* identifiers and timestamps: "")
NoDocument ==
    [exists |-> FALSE, preferred_language |-> None, message_count |-> 0,
     user_id |-> "", platform_user_id |-> "",
     first_interaction |-> "", last_interaction |-> ""]

\* get_user_language reading a field the documents do not have
get_user_language_other_field(doc, get_ok) == None

\* get_user_language answering "en" where it has no preference to return
get_user_language_default_english(doc, get_ok) ==
    IF ~get_ok THEN en
    ELSE IF doc.exists /\ doc.preferred_language # None THEN doc.preferred_language
    ELSE en

\* get_user_language; get_ok = FALSE: the document read raises
get_user_language(doc, get_ok) ==
    IF ~get_ok THEN None
    ELSE IF doc.exists THEN doc.preferred_language
    ELSE None

\* the document after user_ref.set({'preferred_language': code}) without merge
set_merge_language_overwrite(doc, language_code) ==
    [NoDocument EXCEPT !.exists = TRUE, !.preferred_language = language_code]

\* the document after user_ref.set({'preferred_language': code}, merge=True)
set_merge_language(doc, language_code) ==
    [doc EXCEPT !.exists = TRUE, !.preferred_language = language_code]

\* set_user_language answering True without writing
set_user_language_reports_only(doc, language_code, set_ok) ==
    [raised |-> FALSE, value |-> set_ok, doc |-> doc]

\* set_user_language: what it returns and the document it leaves;
\* set_ok = FALSE: the write raises
set_user_language(doc, language_code, set_ok) ==
    IF set_ok
    THEN [raised |-> FALSE, value |-> TRUE, doc |-> set_merge_language(doc, language_code)]
    ELSE [raised |-> FALSE, value |-> FALSE, doc |-> doc]

\* the document after user_ref.set(user_data, merge=True) of
\* save_user_details, where exists is what doc.exists gave at the check of
\* lines 212-217; Increment(1) adds to the count the store holds at the write
save_set_merge(doc, exists, sender_id) ==
    IF ~exists
    THEN [doc EXCEPT !.exists = TRUE,
                     !.user_id = sender_id, !.platform_user_id = sender_id,
                     !.first_interaction = SERVER_TIMESTAMP,
                     !.message_count = 1,
                     !.last_interaction = SERVER_TIMESTAMP]
    ELSE [doc EXCEPT !.exists = TRUE,
                     !.user_id = sender_id, !.platform_user_id = sender_id,
                     !.message_count = @ + 1,
                     !.last_interaction = SERVER_TIMESTAMP]

\* the document after save_user_details("facebook",
\* {"user_id": sender_id, "platform_user_id": sender_id}) run without
\* another writer between its check and its write
save_user_details(doc, sender_id) ==
    IF sender_id = "" THEN doc
    ELSE save_set_merge(doc, doc.exists, sender_id)

----------------------------------------------------------------------------
\* Translation Gateway (translation_utils.py). Each operator returns its value
\* and the calls it made on the remote translation service, in order.

\* what the remote service answers for a translation that succeeds
\* (the empty text stays empty)
Translated(text, source_language, target_language) ==
    IF text = <<>> THEN <<>>
    ELSE <<"[">> \o target_language \o <<"]">> \o text

\* detect_language; detected = None: the remote detect call raises
detect_language(text, client, detected) ==
    IF ~client THEN [raised |-> FALSE, value |-> en, log |-> <<>>]
    ELSE [raised |-> FALSE,
          value |-> IF detected = None THEN en ELSE detected,
          log |-> <<[op |-> "detect", text |-> text]>>]

\* translate_text raising when the remote translate call raises
translate_text_raises(text, target_language, source_language, client, detected, translate_ok) ==
    IF ~client THEN [raised |-> FALSE, value |-> text, log |-> <<>>]
    ELSE LET detect == IF target_language = en /\ ~Truthy(source_language)
                       THEN detect_language(text, client, detected)
                       ELSE [raised |-> FALSE, value |-> None, log |-> <<>>]
             remote == [op |-> "translate", text |-> text,
                        target |-> target_language, source |-> source_language]
         IN IF detect.value = en
            THEN [raised |-> FALSE, value |-> text, log |-> detect.log]
            ELSE [raised |-> ~translate_ok,
                  value |-> IF translate_ok
                            THEN Translated(text, source_language, target_language)
                            ELSE None,
                  log |-> detect.log \o <<remote>>]

\* translate_text; client = FALSE: the client failed to initialise;
\* translate_ok = FALSE: the remote translate call raises
translate_text(text, target_language, source_language, client, detected, translate_ok) ==
    IF ~client THEN [raised |-> FALSE, value |-> text, log |-> <<>>]
    ELSE LET detect == IF target_language = en /\ ~Truthy(source_language)
                       THEN detect_language(text, client, detected)
                       ELSE [raised |-> FALSE, value |-> None, log |-> <<>>]
             remote == [op |-> "translate", text |-> text,
                        target |-> target_language, source |-> source_language]
         IN IF detect.value = en
            THEN [raised |-> FALSE, value |-> text, log |-> detect.log]
            ELSE [raised |-> FALSE,
                  value |-> IF translate_ok
                            THEN Translated(text, source_language, target_language)
                            ELSE text,
                  log |-> detect.log \o <<remote>>]

----------------------------------------------------------------------------
\* Agent Gateway (bedrock_utils.py).

\* events of a streamed response: an event with no 'chunk', a chunk with no
\* 'bytes', a chunk with bytes
Trace == [chunk |-> FALSE, bytes |-> None]
ChunkNoBytes == [chunk |-> TRUE, bytes |-> None]
Chunk(text) == [chunk |-> TRUE, bytes |-> text]

Streams == {
    <<>>,
    <<Chunk(<<" ">>)>>,
    <<Chunk(<<"o">>), Trace, Chunk(<<"k", " ">>)>>,
    <<ChunkNoBytes, Chunk(<<"\n", "y", "e", "s">>)>> }

\* what can become of one invocation: the agent identity is not configured,
\* the credentials are missing, invoke_agent raises, or a stream arrives
AgentOutcomes ==
    { [kind |-> k, events |-> <<>>] :
        k \in {"no_agent_config", "no_credentials", "invoke_error"} }
    \cup { [kind |-> "stream", events |-> e] : e \in Streams }

\* the loop putting each fragment in front of the completion
RECURSIVE completion_of_reversed(_)
completion_of_reversed(events) ==
    IF events = <<>> THEN <<>>
    ELSE completion_of_reversed(Tail(events))
         \o (IF Head(events).chunk /\ Head(events).bytes # None
             THEN Head(events).bytes ELSE <<>>)

\* the loop over response.get('completion', [])
RECURSIVE completion_of(_)
completion_of(events) ==
    IF events = <<>> THEN <<>>
    ELSE (IF Head(events).chunk /\ Head(events).bytes # None
          THEN Head(events).bytes ELSE <<>>)
         \o completion_of(Tail(events))

\* invoke_bedrock_agent invoking the agent a second time when the call raises
invoke_bedrock_agent_retry(user_message, session_id, outcome) ==
    CASE outcome.kind = "no_agent_config" ->
            [raised |-> TRUE, response |-> None, session_id |-> session_id, log |-> <<>>]
      [] outcome.kind = "no_credentials" ->
            [raised |-> TRUE, response |-> None, session_id |-> session_id, log |-> <<>>]
      [] outcome.kind = "invoke_error" ->
            [raised |-> TRUE, response |-> None, session_id |-> session_id,
             log |-> <<[op |-> "invoke_agent", inputText |-> user_message,
                        sessionId |-> session_id],
                       [op |-> "invoke_agent", inputText |-> user_message,
                        sessionId |-> session_id]>>]
      [] OTHER ->
            [raised |-> FALSE, response |-> strip(completion_of(outcome.events)),
             session_id |-> session_id,
             log |-> <<[op |-> "invoke_agent", inputText |-> user_message,
                        sessionId |-> session_id]>>]

\* invoke_bedrock_agent: raised = TRUE when it raises to its caller
invoke_bedrock_agent(user_message, session_id, outcome) ==
    CASE outcome.kind = "no_agent_config" ->
            [raised |-> TRUE, response |-> None, session_id |-> session_id, log |-> <<>>]
      [] outcome.kind = "no_credentials" ->
            [raised |-> TRUE, response |-> None, session_id |-> session_id, log |-> <<>>]
      [] outcome.kind = "invoke_error" ->
            [raised |-> TRUE, response |-> None, session_id |-> session_id,
             log |-> <<[op |-> "invoke_agent", inputText |-> user_message,
                        sessionId |-> session_id]>>]
      [] OTHER ->
            [raised |-> FALSE, response |-> strip(completion_of(outcome.events)),
             session_id |-> session_id,
             log |-> <<[op |-> "invoke_agent", inputText |-> user_message,
                        sessionId |-> session_id]>>]

----------------------------------------------------------------------------
\* Conversation Workflow: process_message_with_translation (language_handler.py),
\* one step per collaborator call.

Slots == {1, 2}

\* the dict the function returns; raised = TRUE: it raised instead
NoResult == [raised |-> FALSE, response |-> None,
             quick_replies |-> NoList, buttons |-> NoList]

Reply(text) == [raised |-> FALSE, response |-> text,
                quick_replies |-> NoList, buttons |-> NoList]

IdleFrame == [
    pc |-> "idle",
    user_id |-> "",
    message_text |-> None,
    payload |-> None,
    user_language |-> None,
    selected_lang |-> None,
    english_message |-> None,
    english_response |-> None,
    result |-> NoResult,
    gateway |-> <<>>,       \* calls made on the Translation and Agent Gateways
    remote |-> <<>>,        \* calls made on the store and the remote services
    stored_at_begin |-> None, \* the preference the store held when the call began
    get_ok |-> TRUE,        \* the preference read did not raise
    set_ok |-> TRUE,        \* the preference write did not raise
    supported |-> <<>>,     \* the list is_language_supported got from the directory
    prompted |-> <<>> ]     \* the list create_language_selection_prompt got

\* messages a platform delivers: (text, quick-reply payload)
Hello == <<"h","e","l","l","o">>

Texts == {
    Hello,
    <<" ","M","A","L","a","y","a","l","a","m","\n">>,
    <<"T","A","M","I","L">>,
    <<"\t","E","n","g","l","i","s","h"," ">>,
    <<"E","N">>,
    <<" ","t","a">>,
    ml,
    fr }

Payloads == {
    LANG_ \o ta,
    LANG_ \o en,
    lang_ \o ml,
    lang_ \o fr,
    LANG_ \o hi,
    LANG_,
    LANG_ \o LANG_ \o en,
    <<"G","E","T","_","S","T","A","R","T","E","D">> }

Inbound ==
    { <<t, None>> : t \in Texts }
    \cup { <<Hello, p>> : p \in Payloads }
    \cup { <<Tamil, p>> : p \in {LANG_, LANG_ \o hi, <<>>} }

\* the deliveries explored for a user whose preference is already stored:
\* an ordinary message, a language name, a quick-reply selection
InboundActive == { <<Hello, None>>, <<Tamil, None>>, <<Hello, LANG_ \o en>> }

InboundFor(doc) == IF Truthy(doc.preferred_language) THEN InboundActive ELSE Inbound

Begin(s, u, message_text, payload) ==
    /\ s = 1
    /\ \A t \in Slots : calls[t].pc = "idle"
    /\ calls' = [calls EXCEPT ![s] =
                   [IdleFrame EXCEPT !.pc = "get_user_language",
                                     !.user_id = u,
                                     !.message_text = message_text,
                                     !.payload = payload,
                                     !.stored_at_begin = user_details[u].preferred_language]]
    /\ UNCHANGED <<user_details, ss_language_support, applied>>

\* line 119 with a branch that lets a language selection through to
\* lines 124-141 whatever the preference read returned
GetUserLanguage_selection_first(s, get_ok) ==
    LET f == calls[s]
        user_language == get_user_language(user_details[f.user_id], get_ok)
    IN /\ f.pc = "get_user_language"
       /\ calls' = [calls EXCEPT ![s] =
                      [f EXCEPT !.user_language = user_language,
                                !.get_ok = get_ok,
                                !.remote = @ \o <<[op |-> "get_preference"]>>,
                                !.pc = IF \/ ~Truthy(user_language)
                                          \/ Truthy(is_language_selection_response(
                                                        f.message_text, f.payload))
                                       THEN "selection" ELSE "translate_in"]]
       /\ UNCHANGED <<user_details, ss_language_support, applied>>

\* line 119, and the branch of line 122
GetUserLanguage(s, get_ok) ==
    LET f == calls[s]
        user_language == get_user_language(user_details[f.user_id], get_ok)
    IN /\ f.pc = "get_user_language"
       /\ calls' = [calls EXCEPT ![s] =
                      [f EXCEPT !.user_language = user_language,
                                !.get_ok = get_ok,
                                !.remote = @ \o <<[op |-> "get_preference"]>>,
                                !.pc = IF ~Truthy(user_language)
                                       THEN "selection" ELSE "translate_in"]]
       /\ UNCHANGED <<user_details, ss_language_support, applied>>

\* lines 124-126: parse the selection and ask the directory
CheckSelection(s, stream_ok) ==
    LET f == calls[s]
        selected_lang == is_language_selection_response(f.message_text, f.payload)
        asked == Truthy(selected_lang)
        supported_languages == get_supported_languages(ss_language_support, stream_ok)
    IN /\ f.pc = "selection"
       /\ ~asked => stream_ok
       /\ calls' = [calls EXCEPT ![s] =
                      [f EXCEPT !.selected_lang = selected_lang,
                                !.supported = IF asked THEN supported_languages ELSE <<>>,
                                !.remote = IF asked
                                           THEN @ \o <<[op |-> "stream_languages"]>>
                                           ELSE @,
                                !.pc = IF asked /\ is_language_supported(
                                                      supported_languages, selected_lang)
                                       THEN "set_user_language" ELSE "prompt"]]
       /\ UNCHANGED <<user_details, ss_language_support, applied>>

\* lines 128-141 writing the selection only when no preference is stored yet
SetUserLanguage_keeps_existing(s, set_ok) ==
    LET f == calls[s]
    IN /\ f.pc = "set_user_language"
       /\ user_details' = [user_details EXCEPT ![f.user_id] =
                             IF Truthy(@.preferred_language) THEN @
                             ELSE set_user_language(@, f.selected_lang, set_ok).doc]
       /\ calls' = [calls EXCEPT ![s] =
                      [f EXCEPT !.set_ok = set_ok,
                                !.remote = @ \o <<[op |-> "set_preference"]>>,
                                !.result = Reply(dict_get(confirmations(f.selected_lang),
                                                          confirmations(en))),
                                !.pc = "done"]]
       /\ UNCHANGED <<ss_language_support, applied>>

\* lines 128-141: save the selection and confirm
SetUserLanguage(s, set_ok) ==
    LET f == calls[s]
    IN /\ f.pc = "set_user_language"
       /\ user_details' = [user_details EXCEPT ![f.user_id] =
                             set_user_language(@, f.selected_lang, set_ok).doc]
       /\ calls' = [calls EXCEPT ![s] =
                      [f EXCEPT !.set_ok = set_ok,
                                !.remote = @ \o <<[op |-> "set_preference"]>>,
                                !.result = Reply(dict_get(confirmations(f.selected_lang),
                                                          confirmations(en))),
                                !.pc = "done"]]
       /\ UNCHANGED <<ss_language_support, applied>>

\* lines 144-149: the language selection prompt
LanguagePrompt(s, stream_ok) ==
    LET f == calls[s]
        supported_languages == get_supported_languages(ss_language_support, stream_ok)
    IN /\ f.pc = "prompt"
       /\ calls' = [calls EXCEPT ![s] =
                      [f EXCEPT !.prompted = supported_languages,
                                !.remote = @ \o <<[op |-> "stream_languages"]>>,
                                !.result = [raised |-> FALSE] @@
                                    create_language_selection_prompt(supported_languages),
                                !.pc = "done"]]
       /\ UNCHANGED <<user_details, ss_language_support, applied>>

\* the except branch raising again instead of answering
pipeline_except_reraise(user_language) == [NoResult EXCEPT !.raised = TRUE]

\* the except branch answering in English whatever the user's language
pipeline_except_english(user_language) == Reply(error_messages(en))

\* lines 177-191: the except branch of the pipeline
pipeline_except(user_language) ==
    Reply(dict_get(error_messages(user_language), error_messages(en)))

\* a call on the Translation Gateway, as the workflow sees it
\* (failed: the client was missing or the remote call raised; the gateway
\* does not tell the workflow)
TranslateCall(text, target_language, source_language, out, failed) ==
    [op |-> "translate_text", text |-> text, target |-> target_language,
     source |-> source_language, session_id |-> "", out |-> out, raised |-> FALSE,
     failed |-> failed]

\* a call on the Agent Gateway, as the workflow sees it
InvokeCall(text, session_id, out, raised) ==
    [op |-> "invoke_bedrock_agent", text |-> text, target |-> None,
     source |-> None, session_id |-> session_id, out |-> out, raised |-> raised,
     failed |-> raised]

\* lines 154-158 without the test for English: every message is translated
TranslateToEnglish_always(s, client, translate_ok) ==
    LET f == calls[s]
        t == translate_text(f.message_text, en, f.user_language, client, None, translate_ok)
    IN /\ f.pc = "translate_in"
       /\ calls' = [calls EXCEPT ![s] =
                      [f EXCEPT !.english_message = t.value,
                                !.gateway = @ \o <<TranslateCall(
                                    f.message_text, en, f.user_language, t.value,
                                    ~client \/ ~translate_ok)>>,
                                !.remote = @ \o t.log,
                                !.pc = "invoke"]]
       /\ UNCHANGED <<user_details, ss_language_support, applied>>

\* lines 154-158: translate the message to English, unless it is English already
TranslateToEnglish(s, client, translate_ok) ==
    LET f == calls[s]
        t == translate_text(f.message_text, en, f.user_language, client, None, translate_ok)
    IN /\ f.pc = "translate_in"
       /\ f.user_language = en => client /\ translate_ok
       /\ calls' = [calls EXCEPT ![s] =
                      IF f.user_language # en
                      THEN [f EXCEPT !.english_message = t.value,
                                     !.gateway = @ \o <<TranslateCall(
                                         f.message_text, en, f.user_language, t.value,
                                         ~client \/ ~translate_ok)>>,
                                     !.remote = @ \o t.log,
                                     !.pc = "invoke"]
                      ELSE [f EXCEPT !.english_message = f.message_text,
                                     !.pc = "invoke"]]
       /\ UNCHANGED <<user_details, ss_language_support, applied>>

\* lines 161-162 invoking the agent with the message as it came
InvokeAgent_untranslated(s, outcome) ==
    LET f == calls[s]
        agent_result == invoke_bedrock_agent(f.message_text, f.user_id, outcome)
        g == [f EXCEPT !.gateway = @ \o <<InvokeCall(f.message_text, f.user_id,
                                             agent_result.response, agent_result.raised)>>,
                       !.remote = @ \o agent_result.log]
    IN /\ f.pc = "invoke"
       /\ calls' = [calls EXCEPT ![s] =
                      IF agent_result.raised
                      THEN [g EXCEPT !.result = pipeline_except(f.user_language),
                                     !.pc = "done"]
                      ELSE [g EXCEPT !.english_response = agent_result.response,
                                     !.pc = "translate_out"]]
       /\ UNCHANGED <<user_details, ss_language_support, applied>>

\* lines 161-162: invoke the agent; an exception goes to the except branch
InvokeAgent(s, outcome) ==
    LET f == calls[s]
        agent_result == invoke_bedrock_agent(f.english_message, f.user_id, outcome)
        g == [f EXCEPT !.gateway = @ \o <<InvokeCall(f.english_message, f.user_id,
                                             agent_result.response, agent_result.raised)>>,
                       !.remote = @ \o agent_result.log]
    IN /\ f.pc = "invoke"
       /\ calls' = [calls EXCEPT ![s] =
                      IF agent_result.raised
                      THEN [g EXCEPT !.result = pipeline_except(f.user_language),
                                     !.pc = "done"]
                      ELSE [g EXCEPT !.english_response = agent_result.response,
                                     !.pc = "translate_out"]]
       /\ UNCHANGED <<user_details, ss_language_support, applied>>

\* lines 165-175: translate the reply back, unless the user reads English
TranslateBack(s, client, translate_ok) ==
    LET f == calls[s]
        t == translate_text(f.english_response, f.user_language, en, client, None,
                            translate_ok)
    IN /\ f.pc = "translate_out"
       /\ f.user_language = en => client /\ translate_ok
       /\ calls' = [calls EXCEPT ![s] =
                      IF f.user_language # en
                      THEN [f EXCEPT !.gateway = @ \o <<TranslateCall(
                                         f.english_response, f.user_language, en, t.value,
                                         ~client \/ ~translate_ok)>>,
                                     !.remote = @ \o t.log,
                                     !.result = Reply(t.value),
                                     !.pc = "done"]
                      ELSE [f EXCEPT !.result = Reply(f.english_response),
                                     !.pc = "done"]]
       /\ UNCHANGED <<user_details, ss_language_support, applied>>

\* the caller takes the result; the frame is gone
Return(s) ==
    /\ calls[s].pc = "done"
    /\ calls' = [calls EXCEPT ![s] = IdleFrame]
    /\ UNCHANGED <<user_details, ss_language_support, applied>>

\* the webhook's save_user_details("facebook", {...}) for user u
SaveUserDetails(u) ==
    /\ \A s \in Slots : calls[s].pc = "idle"
    /\ save_user_details(user_details[u], u).message_count <= MaxMessageCount
    /\ user_details' = [user_details EXCEPT ![u] = save_user_details(@, u)]
    /\ UNCHANGED <<ss_language_support, calls, applied>>

----------------------------------------------------------------------------

\* nothing applied on its own yet
NothingApplied == [op |-> "none"]

Init ==
    /\ user_details = [u \in Users |-> NoDocument]
    /\ ss_language_support \in DirectoryContents
    /\ calls = [s \in Slots |-> IdleFrame]
    /\ applied = NothingApplied

Next ==
    \/ \E s \in Slots, u \in Users : \E m \in InboundFor(user_details[u]) : Begin(s, u, m[1], m[2])
    \/ \E s \in Slots, get_ok \in BOOLEAN : GetUserLanguage(s, get_ok)
    \/ \E s \in Slots, stream_ok \in BOOLEAN : CheckSelection(s, stream_ok)
    \/ \E s \in Slots, set_ok \in BOOLEAN : SetUserLanguage(s, set_ok)
    \/ \E s \in Slots, stream_ok \in BOOLEAN : LanguagePrompt(s, stream_ok)
    \/ \E s \in Slots, client \in BOOLEAN, translate_ok \in BOOLEAN :
          TranslateToEnglish(s, client, translate_ok)
    \/ \E s \in Slots, outcome \in AgentOutcomes : InvokeAgent(s, outcome)
    \/ \E s \in Slots, client \in BOOLEAN, translate_ok \in BOOLEAN :
          TranslateBack(s, client, translate_ok)
    \/ \E s \in Slots : Return(s)
    \/ \E u \in Users : SaveUserDetails(u)

Spec == Init /\ [][Next]_vars

----------------------------------------------------------------------------
\* The parser and the gateways applied on their own, to inputs the workflow
\* does not send them.

PureTexts == Texts \cup {<<>>, <<" ">>}

PurePayloads ==
    Payloads \cup {
        None,
        <<>>,
        lang_ \o lang_ \o ta,
        LANG_ \o lang_ \o en,
        LANG_ \o en \o LANG_,
        lang_ \o <<"x">> \o lang_ \o <<"y">> }

ApplyParser(message_text, payload) ==
    /\ applied = NothingApplied
    /\ applied' = [op |-> "is_language_selection_response",
                   message_text |-> message_text,
                   payload |-> payload,
                   value |-> is_language_selection_response(message_text, payload)]
    /\ UNCHANGED <<user_details, ss_language_support, calls>>

ApplyDirectory(stream_ok) ==
    /\ applied = NothingApplied
    /\ applied' = [op |-> "get_supported_languages",
                   stream_ok |-> stream_ok,
                   value |-> get_supported_languages(ss_language_support, stream_ok)]
    /\ UNCHANGED <<user_details, ss_language_support, calls>>

ApplyTranslate(text, target_language, source_language, client, detected, translate_ok) ==
    /\ applied = NothingApplied
    /\ applied' = [op |-> "translate_text",
                   text |-> text,
                   target_language |-> target_language,
                   source_language |-> source_language,
                   client |-> client,
                   detected |-> detected,
                   translate_ok |-> translate_ok,
                   result |-> translate_text(text, target_language, source_language,
                                             client, detected, translate_ok)]
    /\ UNCHANGED <<user_details, ss_language_support, calls>>

\* the events a stream is made of
Events == {Trace, ChunkNoBytes, Chunk(<<" ">>), Chunk(<<"o">>), Chunk(<<"k", "\n">>)}

RECURSIVE SeqsUpTo(_, _)
SeqsUpTo(S, n) ==
    IF n = 0 THEN {<<>>}
    ELSE LET shorter == SeqsUpTo(S, n - 1)
         IN shorter \cup { Append(q, e) : q \in shorter, e \in S }

PureOutcomes ==
    { [kind |-> k, events |-> <<>>] :
        k \in {"no_agent_config", "no_credentials", "invoke_error"} }
    \cup { [kind |-> "stream", events |-> e] : e \in SeqsUpTo(Events, MaxEvents) }

ApplyInvoke(user_message, session_id, outcome) ==
    /\ applied = NothingApplied
    /\ applied' = [op |-> "invoke_bedrock_agent",
                   user_message |-> user_message,
                   session_id |-> session_id,
                   outcome |-> outcome,
                   result |-> invoke_bedrock_agent(user_message, session_id, outcome)]
    /\ UNCHANGED <<user_details, ss_language_support, calls>>

PureNext ==
    \/ \E message_text \in PureTexts, payload \in PurePayloads :
          ApplyParser(message_text, payload)
    \/ \E stream_ok \in BOOLEAN : ApplyDirectory(stream_ok)
    \/ \E text \in {Hello, <<>>, <<" ">>}, target_language \in {en, ta},
          source_language \in {None, en, ta}, client \in BOOLEAN,
          detected \in {None, en, ta}, translate_ok \in BOOLEAN :
          ApplyTranslate(text, target_language, source_language, client, detected,
                         translate_ok)
    \/ \E user_message \in {Hello, <<>>}, session_id \in Users, outcome \in PureOutcomes :
          ApplyInvoke(user_message, session_id, outcome)

SpecPure == Init /\ [][PureNext]_vars

----------------------------------------------------------------------------
\* The User Language Store and save_user_details called in any order on the
\* profile documents; applied records the last call, the document it found
\* and left, and the call before it.

\* the codes set_user_language is called with
StoreCodes == {en, ta}

NoCall == [op |-> "none", user_id |-> "", language_code |-> None, ok |-> FALSE]

LastCall ==
    IF applied = NothingApplied THEN NoCall
    ELSE [op |-> applied.op, user_id |-> applied.user_id,
          language_code |-> applied.language_code, ok |-> applied.ok]

StoreSet(u, language_code, set_ok) ==
    LET r == set_user_language(user_details[u], language_code, set_ok)
    IN /\ user_details' = [user_details EXCEPT ![u] = r.doc]
       /\ applied' = [op |-> "set_user_language", user_id |-> u,
                      language_code |-> language_code, ok |-> set_ok,
                      result |-> [raised |-> r.raised, value |-> r.value],
                      before |-> user_details[u], after |-> r.doc,
                      prev |-> LastCall]
       /\ UNCHANGED <<ss_language_support, calls>>

StoreGet(u, get_ok) ==
    /\ applied' = [op |-> "get_user_language", user_id |-> u,
                   language_code |-> None, ok |-> get_ok,
                   result |-> [raised |-> FALSE,
                               value |-> get_user_language(user_details[u], get_ok)],
                   before |-> user_details[u], after |-> user_details[u],
                   prev |-> LastCall]
    /\ UNCHANGED <<user_details, ss_language_support, calls>>

StoreSave(u) ==
    LET doc == save_user_details(user_details[u], u)
    IN /\ doc.message_count <= MaxMessageCount
       /\ user_details' = [user_details EXCEPT ![u] = doc]
       /\ applied' = [op |-> "save_user_details", user_id |-> u,
                      language_code |-> None, ok |-> TRUE,
                      result |-> [raised |-> FALSE, value |-> TRUE],
                      before |-> user_details[u], after |-> doc,
                      prev |-> LastCall]
       /\ UNCHANGED <<ss_language_support, calls>>

StoreNext ==
    \/ \E u \in Users, language_code \in StoreCodes, set_ok \in BOOLEAN :
          StoreSet(u, language_code, set_ok)
    \/ \E u \in Users, get_ok \in BOOLEAN : StoreGet(u, get_ok)
    \/ \E u \in Users : StoreSave(u)

SpecStore == Init /\ [][StoreNext]_vars

----------------------------------------------------------------------------
\* Deliveries for one user handled at the same time: each webhook invocation
\* runs process_message_with_translation on its own, so the steps of two
\* calls interleave freely; each delivery carries a language selection.

RaceSelections == {
    <<Hello, LANG_ \o ta>>,
    <<Hello, LANG_ \o en>>,
    <<<<" ","M","A","L","a","y","a","l","a","m","\n">>, None>> }

BeginRace(s, u, message_text, payload) ==
    /\ u = "u1"
    /\ calls[s].pc = "idle"
    /\ calls' = [calls EXCEPT ![s] =
                   [IdleFrame EXCEPT !.pc = "get_user_language",
                                     !.user_id = u,
                                     !.message_text = message_text,
                                     !.payload = payload,
                                     !.stored_at_begin = user_details[u].preferred_language]]
    /\ UNCHANGED <<user_details, ss_language_support, applied>>

\* a webhook invocation's save_user_details, at any moment of the other calls
RaceSaveUserDetails(u) ==
    /\ u = "u1"
    /\ save_user_details(user_details[u], u).message_count <= MaxMessageCount
    /\ user_details' = [user_details EXCEPT ![u] = save_user_details(@, u)]
    /\ UNCHANGED <<ss_language_support, calls, applied>>

RaceNext ==
    \/ \E s \in Slots, u \in Users : \E m \in RaceSelections : BeginRace(s, u, m[1], m[2])
    \/ \E u \in Users : RaceSaveUserDetails(u)
    \/ \E s \in Slots, get_ok \in BOOLEAN : GetUserLanguage(s, get_ok)
    \/ \E s \in Slots, stream_ok \in BOOLEAN : CheckSelection(s, stream_ok)
    \/ \E s \in Slots, set_ok \in BOOLEAN : SetUserLanguage(s, set_ok)
    \/ \E s \in Slots, stream_ok \in BOOLEAN : LanguagePrompt(s, stream_ok)
    \/ \E s \in Slots, client \in BOOLEAN, translate_ok \in BOOLEAN :
          TranslateToEnglish(s, client, translate_ok)
    \/ \E s \in Slots, outcome \in AgentOutcomes : InvokeAgent(s, outcome)
    \/ \E s \in Slots, client \in BOOLEAN, translate_ok \in BOOLEAN :
          TranslateBack(s, client, translate_ok)

SpecRace == Init /\ [][RaceNext]_vars

----------------------------------------------------------------------------
\* save_user_details calls of webhook invocations running at the same time:
\* the check of doc.exists (line 212) and the write (line 222) are two store
\* calls, and other calls' steps come between them. applied holds the calls
\* in flight and how many have completed for each user.

\* save_user_details calls started per user
MaxSaves == 2

IdleSave == [pc |-> "idle", user_id |-> "", exists |-> FALSE]

NoSaves == [op |-> "save_user_details",
            frames |-> [s \in Slots |-> IdleSave],
            started |-> [u \in Users |-> 0],
            completed |-> [u \in Users |-> 0]]

Saves == IF applied = NothingApplied THEN NoSaves ELSE applied

\* lines 201-217: the document reference and the check of doc.exists
SaveCheckExists(s, u) ==
    /\ Saves.frames[s].pc = "idle"
    /\ Saves.started[u] < MaxSaves
    /\ applied' = [Saves EXCEPT
                     !.frames[s] = [pc |-> "set", user_id |-> u,
                                    exists |-> user_details[u].exists],
                     !.started[u] = @ + 1]
    /\ UNCHANGED <<user_details, ss_language_support, calls>>

\* line 222: user_ref.set(user_data, merge=True); set_ok = FALSE: it raises
\* and the call does not complete
SaveSetMerge(s, set_ok) ==
    LET f == Saves.frames[s]
    IN /\ f.pc = "set"
       /\ user_details' = [user_details EXCEPT ![f.user_id] =
                             IF set_ok THEN save_set_merge(@, f.exists, f.user_id) ELSE @]
       /\ applied' = [Saves EXCEPT
                        !.frames[s] = IdleSave,
                        !.completed[f.user_id] = IF set_ok THEN @ + 1 ELSE @]
       /\ UNCHANGED <<ss_language_support, calls>>

SaveNext ==
    \/ \E s \in Slots, u \in Users : SaveCheckExists(s, u)
    \/ \E s \in Slots, set_ok \in BOOLEAN : SaveSetMerge(s, set_ok)

SpecSave == Init /\ [][SaveNext]_vars

----------------------------------------------------------------------------
\* webhook_facebook (main.py) handling POST requests one at a time. applied
\* holds the position of the handler inside the request, the messaging
\* events still to come, and the store, push and handler calls made so far,
\* each with the number of the event it was made for.

\* messaging events delivered over all requests
MaxWebhookEvents == 2

\* a messaging event: sender id ("": none), message text and quick-reply
\* payload (None: none)
WebhookEvents == {
    [sender_id |-> "u1", message_text |-> Hello, payload |-> None],
    [sender_id |-> "u1", message_text |-> Hello, payload |-> LANG_ \o en],
    [sender_id |-> "u1", message_text |-> None, payload |-> None] }

NoEvent == [sender_id |-> "", message_text |-> None, payload |-> None]

\* requests: the events of entry[].messaging[] in order
WebhookRequests == SeqsUpTo(WebhookEvents, MaxWebhookEvents) \ {<<>>}

NoWebhook == [op |-> "webhook_facebook",
              pc |-> "idle",
              queue |-> <<>>,          \* events of the request not yet looked at
              event |-> 0,             \* number of the event being handled
              current |-> NoEvent,
              response_text |-> None,
              quick_replies |-> NoList,
              received |-> <<>>,       \* every event delivered, in order
              trace |-> <<>>]          \* the calls made, in order

Webhook == IF applied = NothingApplied THEN NoWebhook ELSE applied

\* a call the webhook made for event e; ok = FALSE: a store call raised, or
\* the push did not go out
WebhookCall(op, e, sender, text, ok) ==
    [op |-> op, event |-> e, sender |-> sender, text |-> text, ok |-> ok]

\* send_facebook_message raising when the POST fails
send_facebook_message_raises(text, quick_replies, token, post_ok) ==
    [raised |-> token /\ ~post_ok, pushed |-> token /\ post_ok]

\* send_facebook_message; token = FALSE: no page access token configured,
\* post_ok = FALSE: requests.post or raise_for_status raises
send_facebook_message(text, quick_replies, token, post_ok) ==
    [raised |-> FALSE, pushed |-> token /\ post_ok]

\* lines 98-100: the request body; page = FALSE: not a page object, which
\* is answered 404 (line 145) without looking at any event
WebhookReceive(page, events) ==
    /\ Webhook.pc = "idle"
    /\ \A s \in Slots : calls[s].pc = "idle"
    /\ Len(Webhook.received) + Len(events) <= MaxWebhookEvents
    /\ applied' = IF page
                  THEN [Webhook EXCEPT !.pc = "next_event", !.queue = events,
                                       !.received = @ \o events]
                  ELSE Webhook
    /\ UNCHANGED <<user_details, ss_language_support, calls>>

\* lines 101-108: the next event of the loops, skipped unless it has a
\* sender id and a text; line 144 when there is none left
WebhookNextEvent ==
    LET w == Webhook
        e == Head(w.queue)
    IN /\ w.pc = "next_event"
       /\ applied' =
            IF w.queue = <<>>
            THEN [w EXCEPT !.pc = "idle", !.current = NoEvent]
            ELSE [w EXCEPT !.queue = Tail(@), !.event = @ + 1, !.current = e,
                           !.response_text = None, !.quick_replies = NoList,
                           !.pc = IF e.sender_id # "" /\ Truthy(e.message_text)
                                  THEN "save_user_details" ELSE "next_event"]
       /\ UNCHANGED <<user_details, ss_language_support, calls>>

\* lines 146-147: an exception ends the request with status 500; the events
\* not yet looked at are dropped
WebhookExcept(w) ==
    [w EXCEPT !.pc = "idle", !.event = @ + Len(w.queue),
              !.queue = <<>>, !.current = NoEvent]

\* lines 110-113; store_ok = FALSE: a Firestore call of save_user_details raises
WebhookSaveUserDetails(store_ok) ==
    LET w == Webhook
        c == WebhookCall("save_user_details", w.event, "", None, store_ok)
        v == [w EXCEPT !.trace = @ \o <<c>>]
    IN /\ w.pc = "save_user_details"
       /\ user_details' = [user_details EXCEPT ![w.current.sender_id] =
                             IF store_ok THEN save_user_details(@, w.current.sender_id)
                             ELSE @]
       /\ applied' = IF store_ok THEN [v EXCEPT !.pc = "save_user_message"]
                     ELSE WebhookExcept(v)
       /\ UNCHANGED <<ss_language_support, calls>>

\* lines 116-122; store_ok = FALSE: collection_ref.add raises
WebhookSaveUserMessage(store_ok) ==
    LET w == Webhook
        c == WebhookCall("save_chat_message", w.event, "user",
                         w.current.message_text, store_ok)
        v == [w EXCEPT !.trace = @ \o <<c>>]
    IN /\ w.pc = "save_user_message"
       /\ applied' = IF store_ok THEN [v EXCEPT !.pc = "process"]
                     ELSE WebhookExcept(v)
       /\ UNCHANGED <<user_details, ss_language_support, calls>>

\* lines 125-127: the call of process_message_with_translation begins
WebhookProcess ==
    LET w == Webhook
    IN /\ w.pc = "process"
       /\ calls' = [calls EXCEPT ![1] =
                      [IdleFrame EXCEPT
                         !.pc = "get_user_language",
                         !.user_id = w.current.sender_id,
                         !.message_text = w.current.message_text,
                         !.payload = w.current.payload,
                         !.stored_at_begin =
                             user_details[w.current.sender_id].preferred_language]]
       /\ applied' = [w EXCEPT !.pc = "processing"]
       /\ UNCHANGED <<user_details, ss_language_support>>

\* lines 125-133: the call returns; response_text decides whether to reply
WebhookTakeResult ==
    LET w == Webhook
        result == calls[1].result
        c == WebhookCall("process_message_with_translation", w.event, "",
                         result.response, TRUE)
    IN /\ w.pc = "processing"
       /\ calls[1].pc = "done"
       /\ calls' = [calls EXCEPT ![1] = IdleFrame]
       /\ applied' = [w EXCEPT !.trace = @ \o <<c>>,
                               !.response_text = result.response,
                               !.quick_replies = result.quick_replies,
                               !.pc = IF Truthy(result.response)
                                      THEN "send" ELSE "next_event"]
       /\ UNCHANGED <<user_details, ss_language_support>>

\* line 134: send_facebook_message
WebhookSend(token, post_ok) ==
    LET w == Webhook
        r == send_facebook_message(w.response_text, w.quick_replies, token, post_ok)
        c == WebhookCall("send_facebook_message", w.event, "", w.response_text, r.pushed)
        v == [w EXCEPT !.trace = @ \o <<c>>]
    IN /\ w.pc = "send"
       /\ applied' = IF r.raised THEN WebhookExcept(v)
                     ELSE [v EXCEPT !.pc = "save_agent_message"]
       /\ UNCHANGED <<user_details, ss_language_support, calls>>

\* lines 137-142; store_ok = FALSE: collection_ref.add raises
WebhookSaveAgentMessage(store_ok) ==
    LET w == Webhook
        c == WebhookCall("save_chat_message", w.event, "agent", w.response_text, store_ok)
        v == [w EXCEPT !.trace = @ \o <<c>>]
    IN /\ w.pc = "save_agent_message"
       /\ applied' = IF store_ok THEN [v EXCEPT !.pc = "next_event"]
                     ELSE WebhookExcept(v)
       /\ UNCHANGED <<user_details, ss_language_support, calls>>

WebhookNext ==
    \/ \E page \in BOOLEAN, events \in WebhookRequests : WebhookReceive(page, events)
    \/ WebhookNextEvent
    \/ \E store_ok \in BOOLEAN : WebhookSaveUserDetails(store_ok)
    \/ \E store_ok \in BOOLEAN : WebhookSaveUserMessage(store_ok)
    \/ WebhookProcess
    \/ \E s \in Slots, get_ok \in BOOLEAN : GetUserLanguage(s, get_ok)
    \/ \E s \in Slots, stream_ok \in BOOLEAN : CheckSelection(s, stream_ok)
    \/ \E s \in Slots, set_ok \in BOOLEAN : SetUserLanguage(s, set_ok)
    \/ \E s \in Slots, stream_ok \in BOOLEAN : LanguagePrompt(s, stream_ok)
    \/ \E s \in Slots, client \in BOOLEAN, translate_ok \in BOOLEAN :
          TranslateToEnglish(s, client, translate_ok)
    \/ \E s \in Slots, outcome \in AgentOutcomes : InvokeAgent(s, outcome)
    \/ \E s \in Slots, client \in BOOLEAN, translate_ok \in BOOLEAN :
          TranslateBack(s, client, translate_ok)
    \/ WebhookTakeResult
    \/ \E token \in BOOLEAN, post_ok \in BOOLEAN : WebhookSend(token, post_ok)
    \/ \E store_ok \in BOOLEAN : WebhookSaveAgentMessage(store_ok)

SpecWebhook == Init /\ [][WebhookNext]_vars

----------------------------------------------------------------------------
\* Vocabulary of the properties.

Done(s) == calls[s].pc = "done"

\* the call has read the preference
HasRead(s) == calls[s].pc \notin {"idle", "get_user_language"}

stored(u) == user_details[u].preferred_language

IsPrompt(result) == result.response = prompt_text

IsConfirmation(result) ==
    \E c \in {en, ta, ml} : result.response = confirmations(c)

CodesOf(languages) == { languages[i].code : i \in 1..Len(languages) }

\* the call is on the AWAITING_LANGUAGE side of line 122
OnAwaitingPath(s) ==
    \/ calls[s].pc \in {"selection", "set_user_language", "prompt"}
    \/ Done(s) /\ (IsPrompt(calls[s].result) \/ IsConfirmation(calls[s].result))

----------------------------------------------------------------------------
----------------------------------------------------------------------------
\* C2: the stored preference changes only in the write step of a call whose
\* parser yielded a code that the directory list of that call contains, and
\* it becomes that code; so every stored preference is unset or such a code.
C2_PreferenceOnlyFromSupportedSelection ==
    [][\A u \in Users :
         stored(u)' # stored(u) =>
            \E s \in Slots :
               LET f == calls[s]
               IN /\ f.pc = "set_user_language" /\ f.user_id = u
                  /\ f.selected_lang # None /\ f.selected_lang # <<>>
                  /\ \E i \in 1..Len(f.supported) :
                        f.supported[i].code = f.selected_lang
                  /\ f.supported \in {DefaultLanguages}
                        \cup { [i \in 1..Len(ss_language_support) |->
                                  [code |-> IF ss_language_support[i].code = None
                                            THEN ss_language_support[i].id
                                            ELSE ss_language_support[i].code,
                                   name |-> IF ss_language_support[i].name = None
                                            THEN ss_language_support[i].id
                                            ELSE ss_language_support[i].name]] }
                  /\ stored(u)' = f.selected_lang]_vars

\* a code outside the three seed languages was selected and stored
C2_Witness ==
    \E s \in Slots :
        /\ Done(s)
        /\ calls[s].selected_lang = fr
        /\ stored(calls[s].user_id) = fr

----------------------------------------------------------------------------
\* C3 as stated: for a user in AWAITING_LANGUAGE and payload "LANG_"+c with c
\* supported, the call leaves the stored preference equal to c and returns
\* the confirmation keyed by c with no quick replies or buttons, and the
\* next call sees the user as ACTIVE with preference c.
C3_SelectionIsStoredAndConfirmed ==
    \A s \in Slots :
        LET f == calls[s]
        IN /\ \A c \in CodesOf(f.supported) :
                (/\ Done(s)
                 /\ ~Truthy(f.stored_at_begin)
                 /\ f.payload = LANG_ \o c)
                => /\ stored(f.user_id) = c
                   /\ f.result = Reply(dict_get(confirmations(c), confirmations(en)))
           /\ HasRead(s) /\ Truthy(f.stored_at_begin)
                => f.user_language = f.stored_at_begin

----------------------------------------------------------------------------
\* C4: whatever fails (preference read or write, directory read, translation,
\* agent invocation, agent configuration), the call never raises, and what
\* it returns is a response descriptor with a text.
C4_NeverRaises ==
    \A s \in Slots :
        /\ ~calls[s].result.raised
        /\ Done(s) => calls[s].result.response # None

\* the agent invocation raised after the translation had failed, and the
\* call returned
C4_Witness ==
    \E s \in Slots :
        /\ Done(s)
        /\ Len(calls[s].gateway) = 2
        /\ calls[s].gateway[1].failed
        /\ calls[s].gateway[2].raised

----------------------------------------------------------------------------
\* C5 as stated: every response descriptor a call returns carries a non-empty
\* text, also when the agent's reply is empty or only whitespace.
C5_ResponseNeverEmpty ==
    \A s \in Slots :
        Done(s) => calls[s].result.response # None /\ calls[s].result.response # <<>>

----------------------------------------------------------------------------
\* C6: for a user with no stored preference and a message that is no valid
\* selection, the call returns the fixed prompt, one quick reply
\* {title: name, payload: "LANG_"+code} per directory entry in directory
\* order, one button {id: "lang_"+code, title: name} for each of the first 3
\* entries (never more than 3), and the preference stays unset.
C6_PromptMatchesDirectory ==
    \A s \in Slots :
        LET f == calls[s]
            selected == is_language_selection_response(f.message_text, f.payload)
            valid == Truthy(selected) /\ selected \in CodesOf(f.supported)
            directory == f.prompted
        IN Done(s) /\ ~Truthy(f.stored_at_begin) /\ ~valid =>
            /\ ~f.result.raised
            /\ f.result.response = prompt_text
            /\ directory # <<>>
            /\ LET quick_replies == f.result.quick_replies.items
                   buttons == f.result.buttons.items
               IN /\ Len(quick_replies) = Len(directory)
                  /\ \A i \in 1..Len(directory) :
                        /\ quick_replies[i].title = directory[i].name
                        /\ quick_replies[i].payload = LANG_ \o directory[i].code
                  /\ Len(buttons) <= 3
                  /\ Len(buttons) = (IF Len(directory) < 3 THEN Len(directory) ELSE 3)
                  /\ \A i \in 1..Len(buttons) :
                        /\ buttons[i].id = lang_ \o directory[i].code
                        /\ buttons[i].title = directory[i].name
            /\ stored(f.user_id) = None

\* the prompt of a directory of four entries: four quick replies, three buttons
C6_Witness ==
    \E s \in Slots :
        /\ Done(s)
        /\ ~Truthy(calls[s].stored_at_begin)
        /\ IsPrompt(calls[s].result)
        /\ Len(calls[s].prompted) = 4
        /\ Len(calls[s].result.quick_replies.items) = 4
        /\ Len(calls[s].result.buttons.items) = 3

----------------------------------------------------------------------------
\* C7: for an ACTIVE user with preference p other than "en" the call asks the
\* Translation Gateway for text p->en, then invokes the agent with what that
\* returned, then asks for the agent's reply en->p and returns what that
\* returned; a translation that fails hands its input on unchanged, so the
\* agent is still invoked and its reply still returned.
C7_TranslateInvokeTranslate ==
    \A s \in Slots :
        LET f == calls[s]
            g == f.gateway
            p == f.user_language
        IN Done(s) /\ Truthy(p) /\ p # en =>
            /\ Len(g) \in {2, 3}
            /\ g[1].op = "translate_text"
            /\ g[1].text = f.message_text /\ g[1].source = p /\ g[1].target = en
            /\ g[1].failed => g[1].out = f.message_text
            /\ ~g[1].failed /\ f.message_text # <<>> => g[1].out # f.message_text
            /\ g[2].op = "invoke_bedrock_agent"
            /\ g[2].text = g[1].out /\ g[2].session_id = f.user_id
            /\ g[2].raised <=> Len(g) = 2
            /\ ~g[2].raised =>
                /\ g[3].op = "translate_text"
                /\ g[3].text = g[2].out /\ g[3].source = en /\ g[3].target = p
                /\ g[3].failed => g[3].out = g[2].out
                /\ ~g[3].failed /\ g[2].out # <<>> => g[3].out # g[2].out
                /\ f.result = Reply(g[3].out)

\* the first translation failed, the agent answered, the second translation
\* failed: the untranslated reply is returned
C7_Witness ==
    \E s \in Slots :
        /\ Done(s)
        /\ calls[s].user_language = ta
        /\ Len(calls[s].gateway) = 3
        /\ calls[s].gateway[1].failed
        /\ calls[s].gateway[3].failed
        /\ calls[s].result.response = <<"o", "k">>

----------------------------------------------------------------------------
\* C8: for an ACTIVE user with preference "en" the call makes no translate
\* and no detect call, invokes the agent with the inbound text as it came,
\* and returns the agent's reply as it came.
C8_EnglishBypassesTranslation ==
    \A s \in Slots :
        LET f == calls[s]
        IN f.pc \in {"invoke", "translate_out", "done"} /\ f.user_language = en =>
            /\ \A i \in 1..Len(f.gateway) : f.gateway[i].op # "translate_text"
            /\ \A i \in 1..Len(f.remote) : f.remote[i].op \notin {"translate", "detect"}
            /\ f.pc # "invoke" =>
                /\ Len(f.gateway) = 1
                /\ f.gateway[1].op = "invoke_bedrock_agent"
                /\ f.gateway[1].text = f.message_text
            /\ Done(s) /\ ~f.gateway[1].raised => f.result = Reply(f.gateway[1].out)

\* an English user got the agent's reply
C8_Witness ==
    \E s \in Slots :
        /\ Done(s)
        /\ calls[s].user_language = en
        /\ calls[s].message_text = Hello
        /\ calls[s].result.response = <<"y", "e", "s">>

----------------------------------------------------------------------------
\* C9: when the agent invocation fails for an ACTIVE user with preference p,
\* the call returns exactly the fixed error text of p (the English one when p
\* has none), with no quick replies or buttons, and the stored preference is
\* unchanged.
C9_AgentFailureGivesLocalizedError ==
    \A s \in Slots :
        LET f == calls[s]
            p == f.user_language
        IN (/\ Done(s) /\ Truthy(p)
            /\ f.gateway[Len(f.gateway)].op = "invoke_bedrock_agent"
            /\ f.gateway[Len(f.gateway)].raised)
           => /\ f.result.response =
                    (CASE p = ta -> <<"(ta) Sorry, I encountered an error. Please try again.">>
                       [] p = ml -> <<"(ml) Sorry, I encountered an error. Please try again.">>
                       [] OTHER -> <<"Sorry, I encountered an error. Please try again.">>)
              /\ ~f.result.raised
              /\ f.result.quick_replies = NoList
              /\ f.result.buttons = NoList
              /\ stored(f.user_id) = p

\* the agent failed for a Tamil user
C9_Witness ==
    \E s \in Slots :
        /\ Done(s)
        /\ calls[s].user_language = ta
        /\ calls[s].gateway[Len(calls[s].gateway)].raised
        /\ calls[s].result.response = error_messages(ta)

----------------------------------------------------------------------------
\* C10: for a user in AWAITING_LANGUAGE, a free text (no payload) that lower-
\* cased and trimmed is the English name or the code of English, Tamil or
\* Malayalam has the outcome of the payload "LANG_"+code: the parser yields
\* the same code, and when the directory has the code the same preference is
\* written and the same confirmation returned.
FreeTextCode(message_text) ==
    LET t == strip(lower(message_text))
    IN CASE t \in {<<"e","n","g","l","i","s","h">>, <<"e","n">>} -> en
         [] t \in {<<"t","a","m","i","l">>, <<"t","a">>} -> ta
         [] t \in {<<"m","a","l","a","y","a","l","a","m">>, <<"m","l">>} -> ml
         [] OTHER -> None

C10_FreeTextSelectsLikePayload ==
    \A s \in Slots : \A c \in {en, ta, ml} :
        LET f == calls[s]
            by_text == f.payload = None /\ FreeTextCode(f.message_text) = c
            by_payload == f.payload = LANG_ \o c
        IN ~Truthy(f.stored_at_begin) /\ (by_text \/ by_payload) =>
            /\ f.pc \in {"set_user_language", "prompt", "done"} =>
                  f.selected_lang = c
            /\ Done(s) /\ c \in CodesOf(f.supported) =>
                  /\ f.result = Reply(confirmations(c))
                  /\ stored(f.user_id) = (IF f.set_ok THEN c ELSE None)
            /\ Done(s) /\ c \notin CodesOf(f.supported) =>
                  /\ IsPrompt(f.result)
                  /\ stored(f.user_id) = None

\* " MALayalam\n" typed by an AWAITING_LANGUAGE user stored ml
C10_Witness ==
    \E s \in Slots :
        /\ Done(s)
        /\ calls[s].payload = None
        /\ calls[s].message_text = <<" ","M","A","L","a","y","a","l","a","m","\n">>
        /\ calls[s].stored_at_begin = None
        /\ stored(calls[s].user_id) = ml
        /\ calls[s].result = Reply(confirmations(ml))

----------------------------------------------------------------------------
\* C11 as stated: for a payload that begins with "LANG_" or "lang_" the parser
\* returns the payload with only that leading prefix removed, the remainder
\* as it is, whatever the message text.
C11_OnlyLeadingPrefixRemoved ==
    (/\ applied.op = "is_language_selection_response"
     /\ Truthy(applied.payload)
     /\ startswith(applied.payload, LANG_) \/ startswith(applied.payload, lang_))
    => applied.value = SubSeq(applied.payload, 6, Len(applied.payload))

----------------------------------------------------------------------------
\* C12: get_supported_languages always returns a non-empty list: exactly
\* English(en), Tamil(ta), Malayalam(ml) in that order when the collection is
\* empty or its read fails, otherwise one entry per stored document in read
\* order (a document without 'code' or 'name' gives its id).
C12_DirectoryNeverEmpty ==
    applied.op = "get_supported_languages" =>
        LET docs == ss_language_support
            v == applied.value
        IN /\ Len(v) > 0
           /\ IF ~applied.stream_ok \/ Len(docs) = 0
              THEN v = << [code |-> <<"e","n">>, name |-> <<"E","n","g","l","i","s","h">>],
                          [code |-> <<"t","a">>, name |-> <<"T","a","m","i","l">>],
                          [code |-> <<"m","l">>,
                           name |-> <<"M","a","l","a","y","a","l","a","m">>] >>
              ELSE /\ Len(v) = Len(docs)
                   /\ \A i \in 1..Len(docs) :
                        /\ v[i].code = (IF docs[i].code = None THEN docs[i].id
                                        ELSE docs[i].code)
                        /\ v[i].name = (IF docs[i].name = None THEN docs[i].id
                                        ELSE docs[i].name)

\* the read of a collection of four documents failed and the defaults came back
C12_Witness ==
    /\ applied.op = "get_supported_languages"
    /\ ~applied.stream_ok
    /\ Len(ss_language_support) = 4
    /\ Len(applied.value) = 3
    /\ applied.value[1].code = en

----------------------------------------------------------------------------
\* C13: translate_text never raises: when the client failed to initialise
\* (no remote call is made then) or the remote translate call raises, it
\* returns the text it was given.
C13_TranslateFailsOpen ==
    applied.op = "translate_text" =>
        /\ ~applied.result.raised
        /\ ~applied.client => applied.result.log = <<>>
        /\ ~applied.client \/ ~applied.translate_ok =>
              applied.result.value = applied.text

\* the remote translate call was made, raised, and the text came back
C13_Witness ==
    /\ applied.op = "translate_text"
    /\ applied.client /\ ~applied.translate_ok
    /\ applied.text = Hello /\ applied.source_language = ta
    /\ Len(applied.result.log) = 1
    /\ applied.result.value = Hello

----------------------------------------------------------------------------
\* C14: for a streamed response invoke_bedrock_agent returns the text
\* fragments of the chunk events joined in arrival order (an event without a
\* chunk, or a chunk without bytes, adds nothing), trimmed, and the session
\* id it was called with.
RECURSIVE FragmentsOfFirst(_, _)
FragmentsOfFirst(events, n) ==
    IF n = 0 THEN <<>>
    ELSE FragmentsOfFirst(events, n - 1)
         \o (IF events[n].chunk /\ events[n].bytes # None THEN events[n].bytes ELSE <<>>)

C14_CompletionIsFragmentsInOrder ==
    applied.op = "invoke_bedrock_agent" /\ applied.outcome.kind = "stream" =>
        /\ ~applied.result.raised
        /\ applied.result.response =
              strip(FragmentsOfFirst(applied.outcome.events, Len(applied.outcome.events)))
        /\ applied.result.session_id = applied.session_id

\* two fragments, "o" and "k\n", came back as "ok"
C14_Witness ==
    /\ applied.op = "invoke_bedrock_agent"
    /\ applied.outcome.kind = "stream"
    /\ applied.outcome.events = <<Chunk(<<"o">>), Chunk(<<"k", "\n">>)>>
    /\ applied.result.response = <<"o", "k">>
    /\ applied.result.session_id = "u2"

----------------------------------------------------------------------------
----------------------------------------------------------------------------
\* C19: set_user_language never raises and returns whether its write
\* succeeded; it leaves every field of the profile document other than
\* preferred_language as it found it (a failed one leaves the whole document);
\* save_user_details leaves preferred_language as it found it, whichever of
\* the two was called first.
C19_SetAndSaveKeepEachOthersFields ==
    /\ applied.op = "set_user_language" =>
          /\ ~applied.result.raised
          /\ applied.result.value = applied.ok
          /\ applied.after.message_count = applied.before.message_count
          /\ applied.after.user_id = applied.before.user_id
          /\ applied.after.platform_user_id = applied.before.platform_user_id
          /\ applied.after.first_interaction = applied.before.first_interaction
          /\ applied.after.last_interaction = applied.before.last_interaction
          /\ ~applied.ok => applied.after = applied.before
    /\ applied.op = "save_user_details" =>
          applied.after.preferred_language = applied.before.preferred_language

\* set_user_language(u1, ta) succeeded on a document save_user_details had
\* written and that held en
C19_Witness ==
    /\ applied.op = "set_user_language" /\ applied.ok
    /\ applied.user_id = "u1" /\ applied.language_code = ta
    /\ applied.before.preferred_language = en
    /\ applied.before.message_count = 1
    /\ applied.before.first_interaction = SERVER_TIMESTAMP
    /\ applied.after.preferred_language = ta
    /\ applied.after.platform_user_id = "u1"

----------------------------------------------------------------------------
\* Two deliveries for one user handled at the same time.

\* the positions at which a call has a next step; each step's guard tests
\* the position of its own call only
StepPositions ==
    {"get_user_language", "selection", "set_user_language", "prompt",
     "translate_in", "invoke", "translate_out"}

\* this step, if it moves the call of slot s, leaves the other call alone
StepsAlone(s) ==
    calls'[s] # calls[s] => \A t \in Slots \ {s} : calls'[t] = calls[t]

\* the call of slot s has done its preference write
Wrote(s) ==
    /\ Done(s)
    /\ Len(calls[s].remote) > 0
    /\ calls[s].remote[Len(calls[s].remote)].op = "set_preference"

\* this step is the preference write of the call of slot s
WriteStep(s) ==
    /\ calls[s].pc = "set_user_language"
    /\ calls'[s].pc = "done"

\* every field of u's document but preferred_language stays as it is
OtherFieldsKept(u) ==
    /\ user_details'[u].message_count = user_details[u].message_count
    /\ user_details'[u].user_id = user_details[u].user_id
    /\ user_details'[u].platform_user_id = user_details[u].platform_user_id
    /\ user_details'[u].first_interaction = user_details[u].first_interaction
    /\ user_details'[u].last_interaction = user_details[u].last_interaction

\* both calls found the user without a preference, parsed a supported
\* selection, and have finished
BothSelected ==
    \A s \in Slots : /\ Wrote(s)
                     /\ calls[s].user_id = "u1"
                     /\ calls[s].stored_at_begin = None
                     /\ calls[s].user_language = None

----------------------------------------------------------------------------
\* how many entries of a log are calls of op
CountOf(log, op) == Cardinality({i \in 1..Len(log) : log[i].op = op})

\* C17: when the store held no preference for the user as the call began
\* (no document, or a document without the field) or the preference read
\* failed, the read returned None and the call is on the AWAITING_LANGUAGE
\* path: it has not raised, has called neither the Translation nor the Agent
\* Gateway nor their remote services, and ends with the prompt or a
\* confirmation.
C17_NoPreferenceReadTakesAwaitingPath ==
    \A s \in Slots :
        LET f == calls[s]
        IN HasRead(s) /\ (~f.get_ok \/ f.stored_at_begin = None) =>
            /\ f.user_language = None
            /\ f.pc \in {"selection", "set_user_language", "prompt", "done"}
            /\ ~f.result.raised
            /\ f.gateway = <<>>
            /\ \A i \in 1..Len(f.remote) :
                  f.remote[i].op \notin {"translate", "detect", "invoke_agent"}
            /\ Done(s) => IsPrompt(f.result) \/ IsConfirmation(f.result)

\* the user's document was there, written by save_user_details, without a
\* preferred_language; the read succeeded and the call ended with the prompt
C17_Witness ==
    \E s \in Slots :
        /\ Done(s) /\ calls[s].get_ok
        /\ calls[s].stored_at_begin = None
        /\ user_details[calls[s].user_id].exists
        /\ user_details[calls[s].user_id].message_count = 1
        /\ user_details[calls[s].user_id].preferred_language = None
        /\ IsPrompt(calls[s].result)

----------------------------------------------------------------------------
\* C18: within one call the preference is read once (not before line 119,
\* exactly once after it) and written at most once, the Agent Gateway is
\* called at most once and the Translation Gateway at most twice, once
\* towards English and once back; no gateway call makes more than one remote
\* call; a raised agent call is the last gateway call of the call, which is
\* over with it.
C18_NoRetries ==
    \A s \in Slots :
        LET f == calls[s]
            g == f.gateway
        IN /\ CountOf(f.remote, "get_preference") = (IF HasRead(s) THEN 1 ELSE 0)
           /\ CountOf(f.remote, "set_preference") <= 1
           /\ CountOf(g, "invoke_bedrock_agent") <= 1
           /\ CountOf(g, "translate_text") <= 2
           /\ \A i, j \in 1..Len(g) :
                 g[i].op = "translate_text" /\ g[j].op = "translate_text" /\ i < j =>
                    g[i].target = en /\ g[j].source = en
           /\ CountOf(f.remote, "invoke_agent") <= CountOf(g, "invoke_bedrock_agent")
           /\ CountOf(f.remote, "translate") <= CountOf(g, "translate_text")
           /\ CountOf(f.remote, "detect") <= CountOf(g, "translate_text")
           /\ \A i \in 1..Len(g) :
                 g[i].op = "invoke_bedrock_agent" /\ g[i].raised =>
                    i = Len(g) /\ Done(s)

\* the message was translated, the remote agent call raised, and the call
\* ended there with the error message
C18_Witness ==
    \E s \in Slots :
        /\ Done(s)
        /\ calls[s].user_language = ta
        /\ Len(calls[s].gateway) = 2
        /\ calls[s].gateway[2].raised
        /\ CountOf(calls[s].remote, "invoke_agent") = 1
        /\ calls[s].result.response = error_messages(ta)

----------------------------------------------------------------------------
----------------------------------------------------------------------------
\* C21 as stated: when a call, the only one running, ends with the
\* confirmation for code c, the store holds c as the user's preference; a
\* call whose preference write failed does not end with a confirmation.
C21_ConfirmationOnlyAfterStoredWrite ==
    \A s \in Slots :
        LET f == calls[s]
        IN Done(s) =>
            /\ \A c \in {en, ta, ml} :
                  f.result.response = confirmations(c) /\ f.selected_lang = c =>
                     stored(f.user_id) = c
            /\ Wrote(s) /\ ~f.set_ok => ~IsConfirmation(f.result)

----------------------------------------------------------------------------
\* C22 as stated: whenever no save_user_details call is in flight for a
\* user, the stored message_count equals the number of calls completed for
\* that user, however their checks and writes were interleaved.
C22_MessageCountIsCompletedSaves ==
    \A u \in Users :
        (\A s \in Slots : Saves.frames[s].user_id # u) =>
            user_details[u].message_count = Saves.completed[u]

----------------------------------------------------------------------------
\* The webhook's calls, event by event.

\* the calls made for event number e, in order
CallsFor(e) == SelectSeq(Webhook.trace, LAMBDA c : c.event = e)

\* the event has a sender id and a text
HasSenderAndText(ev) == ev.sender_id # "" /\ Truthy(ev.message_text)

\* what the webhook does for an event, in order: operation and chat sender
EventSteps ==
    << <<"save_user_details", "">>,
       <<"save_chat_message", "user">>,
       <<"process_message_with_translation", "">>,
       <<"send_facebook_message", "">>,
       <<"save_chat_message", "agent">> >>

\* a store call that raised
Raised(c) == c.op \in {"save_user_details", "save_chat_message"} /\ ~c.ok

\* every chat entry of sender "agent" comes after the entry of sender "user"
\* of the same event
AgentEntryFollowsUserEntry ==
    \A i \in 1..Len(Webhook.trace) :
        LET c == Webhook.trace[i]
        IN c.op = "save_chat_message" /\ c.sender = "agent" /\ c.ok =>
              \E j \in 1..(i - 1) :
                 LET d == Webhook.trace[j]
                 IN /\ d.op = "save_chat_message" /\ d.sender = "user" /\ d.ok
                    /\ d.event = c.event

====
